---- MODULE Spec2Model ----
(***************************************************************************)
(* State-machine model of src/src/ei_model.py: the mean-gap fairness       *)
(* proxy, EIModel.train (epochs -> mini-batches -> inner PGA iterations)   *)
(* and EIModel.predict (one inner PGA run, then the four return values).   *)
(*                                                                         *)
(* Numbers.  Model parameters, radii and proxy values are fixed-point      *)
(* integers.  Losses are IEEE values: a record [k, v] whose kind k is      *)
(* "fin" (value v), "nan", "pinf" or "ninf", with the IEEE rules for       *)
(* 0 * Inf, Inf - Inf and comparisons against NaN.                         *)
(*                                                                         *)
(* External collaborators (src.model, src.effort, the proxy applied to the *)
(* adversarial predictions) are modelled from their documented contract:   *)
(* see bounded_init and Objective.                                         *)
(*                                                                         *)
(* Every module of model.layers carries a weight and a bias (one element   *)
(* each: the clamp is element-wise).  One call of train or predict is      *)
(* made on a freshly constructed EIModel.                                  *)
(***************************************************************************)
EXTENDS Integers, Sequences, FiniteSets

VARIABLES
    model,           \* self.model: sequence of layers [weight, bias]
    self_model_adv,  \* self.model_adv (<<>> while the attribute is unset)
    call,            \* "idle", "train", "predict", "proxy" or "schedule"
    pc,              \* position inside the active call
    error,           \* exception that left the call ("none" if none)
    lamb, alpha, n_epochs, abstol, pga_n_iters,          \* arguments
    epoch, curr_alpha, batch_losses, batch_idx,          \* train locals
    batch_pred_loss, batch_fair_loss, batch_loss,        \* train locals
    loss_diff_pga, fair_loss_pga,                        \* train locals
    prev_loss, loss_diff,                                \* train and predict
    weight_min, weight_max, bias_min, bias_max,          \* train and predict
    model_adv,       \* local adversarial snapshot (<<>> when unbound)
    X_hat_max,       \* "unbound" | "bound": the local of train / predict
    objective,       \* the batch behind X_hat_max, Z_e: see Objective
    iters,           \* iterations of the inner for-loop executed so far
    pred_loss, fair_loss,                                \* predict locals
    ret,             \* predict's returned tuple (<<>> before the return)
    Z, Y_hat_max, proxy_value   \* fair_batch_proxy: arguments and result

vars == <<model, self_model_adv, call, pc, error,
          lamb, alpha, n_epochs, abstol, pga_n_iters,
          epoch, curr_alpha, batch_losses, batch_idx,
          batch_pred_loss, batch_fair_loss, batch_loss,
          loss_diff_pga, fair_loss_pga, prev_loss, loss_diff,
          weight_min, weight_max, bias_min, bias_max,
          model_adv, X_hat_max, objective, iters,
          pred_loss, fair_loss, ret, Z, Y_hat_max, proxy_value>>

---------------------------------------------------------------------------
(* Bounds of the model.                                                    *)

MaxLayers == 2      \* layers in model.layers
MaxIters == 3       \* largest pga_n_iters
MaxBatches == 2     \* largest number of batches the loader yields
MaxRows == 3        \* rows of a batch handed to fair_batch_proxy
SchedMaxAlpha == 6  \* largest alpha of the radius schedule
SchedMaxEpochs == 5 \* largest n_epochs of the radius schedule

(* Fixed-point resolutions and input sets.                                 *)

LambDen == 2        \* lamb is lamb/LambDen
YDen == 2           \* a score is y/YDen
Step == 1           \* one Adam step at lr = 1e-3 in fixed-point units

ParamValues == {0, 1}
Lambs == {1, LambDen}
Alphas == {0, 2}
TrainAlphas == {2}  \* the first epoch's radius is 0 for every alpha
AbsTols == {0, 1}
NEpochs == {0, 2}

---------------------------------------------------------------------------
(* IEEE loss values.                                                       *)

Fin(n) == [k |-> "fin", v |-> n]
NaN == [k |-> "nan", v |-> 0]
PInf == [k |-> "pinf", v |-> 0]
NInf == [k |-> "ninf", v |-> 0]

PredLosses == {Fin(1), NaN, PInf, NInf}

Abs(n) == IF n < 0 THEN -n ELSE n
Sign(n) == IF n < 0 THEN -1 ELSE IF n > 0 THEN 1 ELSE 0

\* c * x for an integer c
FScale(c, x) ==
    IF x.k = "fin" THEN Fin(c * x.v)
    ELSE IF x.k = "nan" \/ c = 0 THEN NaN
    ELSE IF c > 0 THEN x
    ELSE IF x.k = "pinf" THEN NInf ELSE PInf

FAdd(x, y) ==
    IF x.k = "nan" \/ y.k = "nan" THEN NaN
    ELSE IF x.k = "fin" /\ y.k = "fin" THEN Fin(x.v + y.v)
    ELSE IF x.k = "fin" THEN y
    ELSE IF y.k = "fin" THEN x
    ELSE IF x.k = y.k THEN x ELSE NaN

FSub(x, y) == FAdd(x, FScale(-1, y))

FAbs(x) ==
    IF x.k = "fin" THEN Fin(Abs(x.v))
    ELSE IF x.k = "nan" THEN NaN ELSE PInf

\* x < a for an integer a: false when x is NaN
FLess(x, a) == (x.k = "fin" /\ x.v < a) \/ x.k = "ninf"

IsNanNever(x) == FALSE

\* torch.isnan(batch_loss).any()
IsNan(x) == x.k = "nan"

---------------------------------------------------------------------------
(* Parameters, boxes and the inner ascent step.                            *)

Layer(w, b) == [weight |-> w, bias |-> b]

\* primary models at construction: biases start at 0, weights vary
Models ==
    UNION {[1..n -> {Layer(w, 0) : w \in ParamValues}] : n \in 1..MaxLayers}

RECURSIVE ParamSum(_)
ParamSum(m) ==
    IF m = <<>> THEN 0
    ELSE m[1].weight + m[1].bias + ParamSum(Tail(m))

\* torch.clamp(v, lo, hi) = min(max(v, lo), hi)
Clamp(v, lo, hi) ==
    LET a == IF v < lo THEN lo ELSE v
    IN  IF a > hi THEN hi ELSE a

\* The loop over self.model.layers overwrites the same four locals for
\* every layer, so the values of the last layer are the ones that remain.
RECURSIVE LayerBounds(_, _, _)
LayerBounds(m, r, acc) ==
    IF m = <<>> THEN acc
    ELSE LayerBounds(Tail(m), r,
                     [weight_min |-> m[1].weight - r,
                      weight_max |-> m[1].weight + r,
                      bias_min |-> m[1].bias - r,
                      bias_max |-> m[1].bias + r])

NoBounds == [weight_min |-> 0, weight_max |-> 0, bias_min |-> 0, bias_max |-> 0]

Bounds(m, r) == LayerBounds(m, r, NoBounds)

\* for module in model_adv.layers: clamp weight and bias into the box
ClampAll(m, wlo, whi, blo, bhi) ==
    [i \in DOMAIN m |->
        Layer(Clamp(m[i].weight, wlo, whi), Clamp(m[i].bias, blo, bhi))]

\* deepcopy(self.model).bounded_init((weight_min, weight_max),
\*                                   (bias_min, bias_max))
bounded_init(m, wlo, whi, blo, bhi) == ClampAll(m, wlo, whi, blo, bhi)

\* The batch the inner loop works on (X_hat_max, Z_e) and the proxy are
\* fixed during one PGA run, so proxy(Z_e, model_adv(X_hat_max)) is a
\* function of the adversarial parameters alone: |base + slope * sum|.
\* slope = 0 is a proxy that does not depend on the parameters.
Objectives ==
    {[base |-> 0, slope |-> 0], [base |-> 1, slope |-> 0],
     [base |-> 0, slope |-> 1]}

NoObjective == [base |-> 0, slope |-> 0]

Objective(o, m) == Fin(Abs(o.base + o.slope * ParamSum(m)))

\* sign of d proxy / d parameter, the same for every parameter
GradSign(o, m) == o.slope * Sign(o.base + o.slope * ParamSum(m))

\* optimizer_adv.step() with maximize=True: every parameter moves one
\* step in the direction of its gradient; a zero gradient moves nothing.
AdamAscent(m, g) ==
    [i \in DOMAIN m |-> Layer(m[i].weight + g * Step, m[i].bias + g * Step)]

\* optimizer.step() on the primary model: the gradient of the combined
\* loss is not determined by the model, d is its sign.
AdamDescent(m, d) ==
    [i \in DOMAIN m |-> Layer(m[i].weight - d * Step, m[i].bias - d * Step)]

CurrAlphaNextEpoch(a, e, n) == (a * (e + 1)) \div n

\* curr_alpha = alpha * (epoch / n_epochs), rounded to the fixed-point grid
CurrAlpha(a, e, n) == (a * e) \div n

ConvergedNever(d, tol) == FALSE

\* if loss_diff_pga < abstol: break
Converged(d, tol) == FLess(d, tol)

---------------------------------------------------------------------------
(* The state after EIModel.__init__: no call is active, locals unbound.    *)

FrameInit ==
    /\ pc = "idle" /\ error = "none"
    /\ lamb = 0 /\ alpha = 0 /\ n_epochs = 0 /\ abstol = 0 /\ pga_n_iters = 0
    /\ epoch = 0 /\ curr_alpha = 0 /\ batch_losses = <<>> /\ batch_idx = 0
    /\ batch_pred_loss = Fin(0) /\ batch_fair_loss = Fin(0)
    /\ batch_loss = Fin(0)
    /\ loss_diff_pga = Fin(0) /\ fair_loss_pga = Fin(0)
    /\ prev_loss = Fin(0) /\ loss_diff = Fin(0)
    /\ weight_min = 0 /\ weight_max = 0 /\ bias_min = 0 /\ bias_max = 0
    /\ model_adv = <<>> /\ X_hat_max = "unbound" /\ objective = NoObjective
    /\ iters = 0 /\ pred_loss = Fin(0) /\ fair_loss = Fin(0) /\ ret = <<>>

ProxyIdle == Z = <<>> /\ Y_hat_max = <<>> /\ proxy_value = <<>>

Init ==
    /\ model \in Models
    /\ self_model_adv = <<>>
    /\ call = "idle"
    /\ FrameInit
    /\ ProxyIdle

proxyVars == <<Z, Y_hat_max, proxy_value>>
argVars == <<lamb, alpha, n_epochs, abstol, pga_n_iters>>
boxVars == <<weight_min, weight_max, bias_min, bias_max>>
trainOnly == <<epoch, curr_alpha, batch_losses, batch_idx, batch_pred_loss,
               batch_fair_loss, batch_loss, loss_diff_pga, fair_loss_pga>>
predictOnly == <<pred_loss, fair_loss, ret>>

---------------------------------------------------------------------------
(* EIModel.train                                                           *)

\* Lines 55-68: the call, the convergence locals, the first epoch's radius.
\* With n_epochs = 0 the loop body never runs and line 139 is next:
\* torch.mean of a Python list raises TypeError.
TrainCall ==
    /\ call = "idle"
    /\ \E l \in Lambs, a \in TrainAlphas, n \in NEpochs, tol \in AbsTols,
          k \in 0..MaxIters :
        /\ lamb' = l /\ alpha' = a /\ n_epochs' = n /\ abstol' = tol
        /\ pga_n_iters' = k
        /\ loss_diff' = Fin(1)
        /\ prev_loss' = Fin(0)
        /\ epoch' = 0
        /\ batch_losses' = <<>>
        /\ batch_idx' = 0
        /\ IF n = 0
           THEN /\ pc' = "raised" /\ error' = "TypeError"
                /\ curr_alpha' = curr_alpha
           ELSE /\ pc' = "batch" /\ error' = error
                /\ curr_alpha' = CurrAlpha(a, 0, n)
    /\ call' = "train"
    /\ UNCHANGED <<model, self_model_adv, batch_pred_loss, batch_fair_loss,
                   batch_loss, loss_diff_pga, fair_loss_pga, boxVars,
                   model_adv, X_hat_max, objective, iters, predictOnly,
                   proxyVars>>

\* Lines 70-95: the forward pass of one batch.  If some prediction is below
\* tau the effort-transformed batch, the box and the adversarial snapshot
\* are built; otherwise the fairness loss of the batch is 0.
TrainForward ==
    /\ call = "train" /\ pc = "batch" /\ batch_idx < MaxBatches
    /\ \E p \in PredLosses, eligible \in BOOLEAN, o \in Objectives :
        /\ batch_pred_loss' = p
        /\ batch_loss' = FScale(LambDen - lamb, p)
        /\ batch_fair_loss' = Fin(0)
        /\ IF eligible
           THEN LET b == Bounds(model, curr_alpha) IN
                /\ X_hat_max' = "bound"
                /\ objective' = o
                /\ weight_min' = b.weight_min /\ weight_max' = b.weight_max
                /\ bias_min' = b.bias_min /\ bias_max' = b.bias_max
                /\ model_adv' = bounded_init(model, b.weight_min, b.weight_max,
                                             b.bias_min, b.bias_max)
                /\ loss_diff_pga' = Fin(1)
                /\ fair_loss_pga' = Fin(0)
                /\ iters' = 0
                /\ pc' = "pga"
           ELSE /\ pc' = "combine"
                /\ UNCHANGED <<X_hat_max, objective, boxVars, model_adv,
                               loss_diff_pga, fair_loss_pga, iters>>
    /\ UNCHANGED <<model, self_model_adv, call, error, argVars, epoch,
                   curr_alpha, batch_losses, batch_idx, prev_loss, loss_diff,
                   predictOnly, proxyVars>>

\* Lines 97-116: one iteration of the inner loop.  prev_loss is the same
\* local the epoch-level check reads at line 132.
TrainPgaIter ==
    /\ call = "train" /\ pc = "pga" /\ iters < pga_n_iters
    /\ LET value == Objective(objective, model_adv)
           stepped == AdamAscent(model_adv, GradSign(objective, model_adv))
           diff == FAbs(FSub(fair_loss_pga, value))
       IN  /\ prev_loss' = fair_loss_pga
           /\ fair_loss_pga' = value
           /\ loss_diff_pga' = diff
           /\ model_adv' = ClampAll(stepped, weight_min, weight_max,
                                    bias_min, bias_max)
           /\ iters' = iters + 1
           /\ pc' = IF Converged(diff, abstol) THEN "pga_exit" ELSE "pga"
    /\ UNCHANGED <<model, self_model_adv, call, error, argVars, epoch,
                   curr_alpha, batch_losses, batch_idx, batch_pred_loss,
                   batch_fair_loss, batch_loss, loss_diff, boxVars, X_hat_max,
                   objective, predictOnly, proxyVars>>

\* Lines 118-119: after the loop (break, or range exhausted) the proxy is
\* evaluated once more on the final adversarial model.
TrainAfterPga ==
    /\ call = "train"
    /\ pc = "pga_exit" \/ (pc = "pga" /\ iters >= pga_n_iters)
    /\ batch_fair_loss' = Objective(objective, model_adv)
    /\ pc' = "combine"
    /\ UNCHANGED <<model, self_model_adv, call, error, argVars, epoch,
                   curr_alpha, batch_losses, batch_idx, batch_pred_loss,
                   batch_loss, loss_diff_pga, fair_loss_pga, prev_loss,
                   loss_diff, boxVars, model_adv, X_hat_max, objective, iters,
                   predictOnly, proxyVars>>

\* Lines 121-129: the combined loss, the NaN test, the optimizer step.
TrainBatchEnd ==
    /\ call = "train" /\ pc = "combine"
    /\ LET total == FAdd(batch_loss, FScale(lamb, batch_fair_loss)) IN
        /\ batch_loss' = total
        /\ IF IsNan(total)
           THEN UNCHANGED <<model, batch_losses>>
           ELSE /\ \E d \in {-1, 1} : model' = AdamDescent(model, d)
                /\ batch_losses' = Append(batch_losses, total)
    /\ batch_idx' = batch_idx + 1
    /\ pc' = "batch"
    /\ UNCHANGED <<self_model_adv, call, error, argVars, epoch, curr_alpha,
                   batch_pred_loss, batch_fair_loss, loss_diff_pga,
                   fair_loss_pga, prev_loss, loss_diff, boxVars, model_adv,
                   X_hat_max, objective, iters, predictOnly, proxyVars>>

\* Line 132, once the loader is exhausted: torch.mean(batch_losses) is
\* handed a Python list and raises TypeError, so lines 134-143 (the
\* convergence test, the next epoch, both returns) are never executed.
TrainEpochEnd ==
    /\ call = "train" /\ pc = "batch"
    /\ pc' = "raised"
    /\ error' = "TypeError"
    /\ UNCHANGED <<model, self_model_adv, call, argVars, trainOnly, prev_loss,
                   loss_diff, boxVars, model_adv, X_hat_max, objective, iters,
                   predictOnly, proxyVars>>

---------------------------------------------------------------------------
(* EIModel.predict                                                         *)

\* Lines 153-176 and 197-199: the forward pass over the whole dataset and
\* the branch on "some prediction is below tau".
PredictCall ==
    /\ call = "idle"
    /\ \E a \in Alphas, tol \in AbsTols, k \in 0..MaxIters,
          p \in PredLosses, eligible \in BOOLEAN, o \in Objectives :
        /\ alpha' = a /\ abstol' = tol /\ pga_n_iters' = k
        /\ pred_loss' = p
        /\ IF eligible
           THEN LET b == Bounds(model, a) IN
                /\ X_hat_max' = "bound"
                /\ objective' = o
                /\ weight_min' = b.weight_min /\ weight_max' = b.weight_max
                /\ bias_min' = b.bias_min /\ bias_max' = b.bias_max
                /\ model_adv' = bounded_init(model, b.weight_min, b.weight_max,
                                             b.bias_min, b.bias_max)
                /\ loss_diff' = Fin(1)
                /\ fair_loss' = Fin(0)
                /\ iters' = 0
                /\ pc' = "pga"
                /\ UNCHANGED self_model_adv
           ELSE /\ fair_loss' = Fin(0)
                /\ self_model_adv' = model
                /\ pc' = "finish"
                /\ UNCHANGED <<X_hat_max, objective, boxVars, model_adv,
                               loss_diff, iters>>
    /\ call' = "predict"
    /\ UNCHANGED <<model, error, lamb, n_epochs, trainOnly, prev_loss, ret,
                   proxyVars>>

\* Lines 177-195: one iteration of the inner loop.
PredictPgaIter ==
    /\ call = "predict" /\ pc = "pga" /\ iters < pga_n_iters
    /\ LET value == Objective(objective, model_adv)
           stepped == AdamAscent(model_adv, GradSign(objective, model_adv))
           diff == FAbs(FSub(fair_loss, value))
       IN  /\ prev_loss' = fair_loss
           /\ fair_loss' = value
           /\ loss_diff' = diff
           /\ model_adv' = ClampAll(stepped, weight_min, weight_max,
                                    bias_min, bias_max)
           /\ iters' = iters + 1
           /\ pc' = IF Converged(diff, abstol) THEN "pga_exit" ELSE "pga"
    /\ UNCHANGED <<model, self_model_adv, call, error, argVars, trainOnly,
                   boxVars, X_hat_max, objective, pred_loss, ret, proxyVars>>

\* Line 196: the adversarial model is retained on the instance.
PredictAfterPga ==
    /\ call = "predict"
    /\ pc = "pga_exit" \/ (pc = "pga" /\ iters >= pga_n_iters)
    /\ self_model_adv' = model_adv
    /\ pc' = "finish"
    /\ UNCHANGED <<model, call, error, argVars, trainOnly, prev_loss,
                   loss_diff, boxVars, model_adv, X_hat_max, objective, iters,
                   predictOnly, proxyVars>>

\* Lines 201-207: the four return values.  Line 203 reads the local
\* X_hat_max, which only the "below tau" branch assigns.
PredictReturn ==
    /\ call = "predict" /\ pc = "finish"
    /\ IF X_hat_max = "bound"
       THEN /\ ret' = [Y_hat |-> model, Y_hat_max |-> self_model_adv,
                       pred_loss |-> pred_loss, fair_loss |-> fair_loss]
            /\ pc' = "returned"
            /\ UNCHANGED error
       ELSE /\ pc' = "raised"
            /\ error' = "UnboundLocalError"
            /\ UNCHANGED ret
    /\ UNCHANGED <<model, self_model_adv, call, argVars, trainOnly, prev_loss,
                   loss_diff, boxVars, model_adv, X_hat_max, objective, iters,
                   pred_loss, fair_loss, proxyVars>>

Next ==
    \/ TrainCall
    \/ TrainForward
    \/ TrainPgaIter
    \/ TrainAfterPga
    \/ TrainBatchEnd
    \/ TrainEpochEnd
    \/ PredictCall
    \/ PredictPgaIter
    \/ PredictAfterPga
    \/ PredictReturn

Spec == Init /\ [][Next]_vars

---------------------------------------------------------------------------
(* fair_batch_proxy as a pure function.  A score is y/YDen; a loss is the  *)
(* exact rational [num, den] with den > 0.                                 *)

RZero == [num |-> 0, den |-> 1]
RSub(a, b) == [num |-> a.num * b.den - b.num * a.den, den |-> a.den * b.den]
RAdd(a, b) == [num |-> a.num * b.den + b.num * a.den, den |-> a.den * b.den]
RAbs(a) == [num |-> Abs(a.num), den |-> a.den]

RECURSIVE SumSqErr(_)
SumSqErr(ys) ==
    IF ys = <<>> THEN 0
    ELSE (ys[1] - YDen) * (ys[1] - YDen) + SumSqErr(Tail(ys))

\* torch.nn.MSELoss(reduction='mean')(ys, ones) for a non-empty ys
MSELoss(ys) == [num |-> SumSqErr(ys), den |-> Len(ys) * YDen * YDen]

\* Y_hat_max[Z == z]
RECURSIVE Group(_, _, _)
Group(zs, ys, z) ==
    IF zs = <<>> THEN <<>>
    ELSE IF zs[1] = z THEN <<ys[1]>> \o Group(Tail(zs), Tail(ys), z)
    ELSE Group(Tail(zs), Tail(ys), z)

\* One pass of "for z in [0,1]": the term added to proxy_value
ProxyTerm(zs, ys, z) ==
    LET grp == Group(zs, ys, z)
        loss_z == IF grp = <<>> THEN RZero ELSE MSELoss(grp)
    IN  RAbs(RSub(loss_z, MSELoss(ys)))

fair_batch_proxy(zs, ys) ==
    RAdd(RAdd(RZero, ProxyTerm(zs, ys, 0)), ProxyTerm(zs, ys, 1))

ProxyInit ==
    /\ model = <<>> /\ self_model_adv = <<>>
    /\ call = "proxy"
    /\ FrameInit
    /\ \E n \in 1..MaxRows :
        /\ Z \in [1..n -> {0, 1}]
        /\ Y_hat_max \in [1..n -> 0..YDen]
    /\ proxy_value = <<>>

FairBatchProxy ==
    /\ call = "proxy" /\ pc = "idle"
    /\ proxy_value' = fair_batch_proxy(Z, Y_hat_max)
    /\ pc' = "returned"
    /\ UNCHANGED <<model, self_model_adv, call, error, argVars, trainOnly,
                   prev_loss, loss_diff, boxVars, model_adv, X_hat_max,
                   objective, iters, predictOnly, Z, Y_hat_max>>

ProxyNext == FairBatchProxy

SpecProxy == ProxyInit /\ [][ProxyNext]_vars

---------------------------------------------------------------------------
(* The radius: the header of train's epoch loop (lines 65-68) for every    *)
(* epoch of range(n_epochs), and predict's box (lines 164-170).            *)

ScheduleInit ==
    /\ model \in Models /\ self_model_adv = <<>>
    /\ call = "schedule"
    /\ pc = "idle" /\ error = "none"
    /\ lamb = 0 /\ abstol = 0 /\ pga_n_iters = 0
    /\ alpha \in 0..SchedMaxAlpha
    /\ n_epochs \in 1..SchedMaxEpochs
    /\ epoch = 0 /\ curr_alpha = 0 /\ batch_losses = <<>> /\ batch_idx = 0
    /\ batch_pred_loss = Fin(0) /\ batch_fair_loss = Fin(0)
    /\ batch_loss = Fin(0)
    /\ loss_diff_pga = Fin(0) /\ fair_loss_pga = Fin(0)
    /\ prev_loss = Fin(0) /\ loss_diff = Fin(0)
    /\ weight_min = 0 /\ weight_max = 0 /\ bias_min = 0 /\ bias_max = 0
    /\ model_adv = <<>> /\ X_hat_max = "unbound" /\ objective = NoObjective
    /\ iters = 0 /\ pred_loss = Fin(0) /\ fair_loss = Fin(0) /\ ret = <<>>
    /\ ProxyIdle

\* for epoch in range(n_epochs): curr_alpha = alpha * (epoch / n_epochs)
ScheduleEpoch ==
    /\ call = "schedule"
    /\ \/ /\ pc = "idle"
          /\ epoch' = 0
       \/ /\ pc = "epoch" /\ epoch + 1 < n_epochs
          /\ epoch' = epoch + 1
    /\ curr_alpha' = CurrAlpha(alpha, epoch', n_epochs)
    /\ pc' = "epoch"
    /\ UNCHANGED <<model, self_model_adv, call, error, argVars, batch_losses,
                   batch_idx, batch_pred_loss, batch_fair_loss, batch_loss,
                   loss_diff_pga, fair_loss_pga, prev_loss, loss_diff,
                   boxVars, model_adv, X_hat_max, objective, iters,
                   predictOnly, proxyVars>>

\* predict: weight_min = weight - alpha, ... for the layers of self.model
SchedulePredictBox ==
    /\ call = "schedule" /\ pc = "idle"
    /\ LET b == Bounds(model, alpha) IN
        /\ weight_min' = b.weight_min /\ weight_max' = b.weight_max
        /\ bias_min' = b.bias_min /\ bias_max' = b.bias_max
    /\ pc' = "box"
    /\ UNCHANGED <<model, self_model_adv, call, error, argVars, trainOnly,
                   prev_loss, loss_diff, model_adv, X_hat_max, objective,
                   iters, predictOnly, proxyVars>>

ScheduleNext ==
    \/ ScheduleEpoch
    \/ SchedulePredictBox

SpecSchedule == ScheduleInit /\ [][ScheduleNext]_vars

---------------------------------------------------------------------------
(* Claims.                                                                 *)

\* radius of the active call: curr_alpha in train, alpha in predict
Radius == IF call = "train" THEN curr_alpha ELSE alpha

\* every weight and bias of adv within r of the same parameter of prim
InOwnBox(adv, prim, r) ==
    \A i \in DOMAIN adv :
        /\ prim[i].weight - r <= adv[i].weight
        /\ adv[i].weight <= prim[i].weight + r
        /\ prim[i].bias - r <= adv[i].bias
        /\ adv[i].bias <= prim[i].bias + r

InPga == call \in {"train", "predict"} /\ pc \in {"pga", "pga_exit"}

\* the inner loop is over and the fairness loss is evaluated next
PgaOver == pc = "pga_exit" \/ (pc = "pga" /\ iters >= pga_n_iters)

\* C1: in train and in predict, after every inner PGA iteration every
\* weight and bias of the adversarial model lies within
\* [primary - radius, primary + radius] of that same parameter.
C1_ProjectionInvariant ==
    (InPga /\ iters >= 1) => InOwnBox(model_adv, model, Radius)

\* C2: predict on a dataset with no prediction below tau completes
\* normally, returns fairness_loss = 0 and retains an adversarial model
\* whose parameters are those of the primary model.
C2_NoEligiblePredict ==
    (call = "predict" /\ X_hat_max = "unbound") =>
        /\ pc # "raised"
        /\ pc = "returned" =>
            (ret.fair_loss = Fin(0) /\ self_model_adv = model)

SingleGroup(zs) == (\A i \in DOMAIN zs : zs[i] = 0) \/ (\A i \in DOMAIN zs : zs[i] = 1)

\* C3: for a non-empty batch whose Z are all 0 or all 1, fair_batch_proxy
\* returns exactly 0.
C3_SingleGroupZero ==
    (call = "proxy" /\ pc = "returned" /\ SingleGroup(Z)) =>
        proxy_value.num = 0

\* C4: in train, a batch whose combined loss is NaN leaves every parameter
\* of the primary model unchanged (whether or not the inner PGA loop ran:
\* the only step that changes the primary model is the end of a batch
\* whose combined loss is not NaN), and training goes on to the next batch.
C4_NaNSkip ==
    [][/\ (call = "train" /\ model' # model) =>
            (pc = "combine" /\ batch_loss'.k # "nan")
       /\ (call = "train" /\ pc = "combine" /\ batch_loss'.k = "nan") =>
            (/\ pc' = "batch" /\ batch_idx' = batch_idx + 1
             /\ error' = "none" /\ batch_losses' = batch_losses)]_vars

\* C4 witness: the second batch is next, the first one ran the inner loop
\* and ended with a NaN combined loss.
C4_Witness ==
    /\ call = "train" /\ pc = "batch" /\ batch_idx = 1
    /\ batch_loss.k = "nan" /\ iters >= 1 /\ batch_losses = <<>>

\* C5: in train, for every batch whose combined loss is not finite (NaN,
\* +Inf or -Inf) the backward pass and the optimizer step are skipped.
C5_NonFiniteSkip ==
    [][(call = "train" /\ pc = "combine" /\ batch_loss'.k # "fin") =>
            (model' = model /\ batch_losses' = batch_losses)]_vars

\* C6: during the first epoch the radius is 0 and the adversarial model
\* the fairness loss is computed on equals the primary model, parameter
\* by parameter.
C6_WarmUp ==
    (call = "train" /\ epoch = 0 /\ pc \in {"pga", "pga_exit"}) =>
        /\ curr_alpha = 0
        /\ (PgaOver /\ iters >= 1) => model_adv = model

PgaDiff == IF call = "train" THEN loss_diff_pga ELSE loss_diff
PgaFair == IF call = "train" THEN fair_loss_pga ELSE fair_loss

\* C7: the inner loop of train and of predict runs at most pga_n_iters
\* iterations; it goes on after an iteration only if the absolute
\* difference of the last two proxy values is not below abstol and breaks
\* in the very iteration in which it is, so with abstol > 0 a proxy that
\* repeats its value ends the loop by the second iteration.
C7_EarlyExit ==
    InPga =>
        /\ iters <= pga_n_iters
        /\ iters >= 1 => PgaDiff = FAbs(FSub(prev_loss, PgaFair))
        /\ (pc = "pga" /\ iters >= 1) => ~FLess(PgaDiff, abstol)
        /\ pc = "pga_exit" => (iters >= 1 /\ FLess(PgaDiff, abstol))
        /\ (pc = "pga" /\ iters >= 2 /\ abstol > 0) => prev_loss # PgaFair

\* C7 witness: predict's loop left at its second iteration of three, on a
\* proxy that was 1 in both iterations.
C7_Witness ==
    /\ call = "predict" /\ pc = "pga_exit"
    /\ iters = 2 /\ pga_n_iters = 3
    /\ prev_loss = Fin(1) /\ fair_loss = Fin(1)

\* C8: train ends by returning the trainer, and the value the epoch check
\* compares against is the previous epoch's mean batch loss (0 before the
\* first epoch), which the inner PGA loop does not change.
C8_Termination ==
    (call = "train" /\ n_epochs >= 1 /\ batch_idx >= 1) =>
        /\ pc # "raised"
        /\ (epoch = 0 /\ pc = "batch") => prev_loss = Fin(0)

InSchedule == call = "schedule" /\ pc = "epoch"

C10_ReportedLoss ==
    /\ (call = "predict" /\ pc = "returned" /\ pga_n_iters >= 1) =>
            ret.fair_loss = Objective(objective, self_model_adv)
    /\ (call = "train" /\ pc = "combine" /\ batch_fair_loss # Fin(0)) =>
            batch_fair_loss = Objective(objective, model_adv)

====
